---- MODULE Spec2Model ----
(***************************************************************************)
(* Model of the field accessor protocol of elf_trait (src/src/lib.rs):     *)
(* the Field descriptors Field1 / Field2, the View `Test` over a shared    *)
(* Rc<RefCell<[u8]>> buffer, and the Getter / Setter operations on it.     *)
(*                                                                         *)
(* Values are machine words tagged with their Rust type.  A u32 is kept as *)
(* two 16-bit halves (hi, lo) so that the whole 32-bit range fits; a u8    *)
(* has hi = 0.  Buffers are 1-based sequences of bytes, so the Rust slice  *)
(* data[start..end] is SubSeq(data, start + 1, end).                       *)
(***************************************************************************)
EXTENDS Integers, Sequences, FiniteSets, TLC

\* ------------------------------------------------------------------ bounds
\* most Views alive at once in a free run
MaxViews == 3
\* most calls of a free run
MaxCalls == 3
\* length of the second, truncated buffer a View can be bound to
ShortLen == 3

\* ------------------------------------------------------------------ values
Val8(n) == [kind |-> "u8", hi |-> 0, lo |-> n]
Val32(h, l) == [kind |-> "u32", hi |-> h, lo |-> l]
NoVal == [kind |-> "none", hi |-> 0, lo |-> 0]

\* enum Encode { Le, Be }
Encode == {"Le", "Be"}

\* ------------------------------------------------------------- descriptors
\* struct Field1(u8): range 0..1.  No descriptor of lib.rs implements a
\* Mutable marker (the trait exists only in accessor.rs), hence mutable FALSE.
Field1 == [name |-> "Field1", start |-> 0, end |-> 1, kind |-> "u8", mutable |-> FALSE]
\* struct Field2(u32): range 1..5.
Field2 == [name |-> "Field2", start |-> 1, end |-> 5, kind |-> "u32", mutable |-> FALSE]
\* Two further instances of the Field trait, with the u8 codec of Field1:
\* FieldOv lies inside Field2's range; FieldWide declares a 2-byte range for
\* its 1-byte value type.
FieldOv == [name |-> "FieldOv", start |-> 1, end |-> 2, kind |-> "u8", mutable |-> FALSE]
FieldWide == [name |-> "FieldWide", start |-> 0, end |-> 2, kind |-> "u8", mutable |-> FALSE]
Fields == {Field1, Field2, FieldOv, FieldWide}
FieldNamed(n) == CHOOSE T \in Fields : T.name = n

\* ------------------------------------------------------------------ codecs
\* u8::to_le_bytes / u8::to_be_bytes
U8ToBytes(v) == <<v.lo>>
\* u8::from_le(val[0]) / u8::from_be(val[0]): the first byte of the slice
U8FromBytes(val) == Val8(val[1])
\* u32::to_le_bytes
U32ToLeBytes(v) == <<v.lo % 256, v.lo \div 256, v.hi % 256, v.hi \div 256>>
\* u32::to_be_bytes
U32ToBeBytes(v) == <<v.hi \div 256, v.hi % 256, v.lo \div 256, v.lo % 256>>
\* a from_le_bytes that assembles the two halves in the wrong places
U32FromLeBytesSwapped(val) == Val32(val[1] + 256 * val[2], val[3] + 256 * val[4])
\* u32::from_le_bytes
U32FromLeBytes(val) == Val32(val[3] + 256 * val[4], val[1] + 256 * val[2])
\* u32::from_be_bytes
U32FromBeBytes(val) == Val32(256 * val[1] + val[2], 256 * val[3] + val[4])

to_le_bytes(T, v) == IF T.kind = "u8" THEN U8ToBytes(v) ELSE U32ToLeBytes(v)
to_be_bytes(T, v) == IF T.kind = "u8" THEN U8ToBytes(v) ELSE U32ToBeBytes(v)
from_le_bytes(T, val) == IF T.kind = "u8" THEN U8FromBytes(val) ELSE U32FromLeBytes(val)
from_be_bytes(T, val) == IF T.kind = "u8" THEN U8FromBytes(val) ELSE U32FromBeBytes(val)
\* val[0] panics on an empty slice; val.try_into().unwrap() panics unless
\* the slice is exactly 4 bytes long
FromBytesPanics(T, val) == IF T.kind = "u8" THEN Len(val) = 0 ELSE Len(val) # 4

\* ----------------------------------------------------------------- buffers
\* the buffer of fn test()
TestBuffer == <<18, 52, 86, 120, 154, 188, 222, 240>>
\* a truncated input: the first ShortLen bytes of it
ShortBuffer == SubSeq(TestBuffer, 1, ShortLen)
InitData == <<TestBuffer, ShortBuffer>>
Bufs == DOMAIN InitData

\* slice indexing buf[T::range()]: panics unless start <= end <= len
IndexPanics(buf, T) == T.start > T.end \/ T.end > Len(buf)
Slice(buf, T) == SubSeq(buf, T.start + 1, T.end)
\* dst.copy_from_slice(src) panics unless both have the same length
CopyPanics(T, bytes) == Len(bytes) # T.end - T.start
\* a copy that lands one byte past the range
copy_from_slice_shifted(buf, T, bytes) ==
    [k \in DOMAIN buf |->
        IF T.start + 1 < k /\ k <= T.end + 1 THEN bytes[k - T.start - 1] ELSE buf[k]]
\* buf[T::range()].copy_from_slice(bytes)
copy_from_slice(buf, T, bytes) ==
    [k \in DOMAIN buf |->
        IF T.start < k /\ k <= T.end THEN bytes[k - T.start] ELSE buf[k]]

\* ------------------------------------------------------------------- state
\* data:      the shared buffers (Rc<RefCell<[u8]>>), by buffer id
\* views:     the Views (struct Test) created so far; a View is named by its index
\* field1/2:  the destinations of out (let mut field1, field2 of fn test())
\* panicked:  a call has panicked; the run is over
\* log:       the calls made so far, as the caller saw them
\* before:    the buffers as they were just before the latest call
\* pc:        the statement fn test() has reached (scripted runs only)
VARIABLES data, views, field1, field2, panicked, log, before, pc
vars == <<data, views, field1, field2, panicked, log, before, pc>>

\* one call of the protocol: receiver, returned View, descriptor, requested
\* order, argument, returned value, and whether it returned at all
Call(op, view, rview, T, enc, arg, ret, ok) ==
    [op |-> op, view |-> view, rview |-> rview, T |-> T, enc |-> enc,
     arg |-> arg, ret |-> ret, ok |-> ok]
NoCall == Call("none", 0, 0, "-", "-", NoVal, NoVal, TRUE)
last == IF Len(log) >= 1 THEN log[Len(log)] ELSE NoCall
prev == IF Len(log) >= 2 THEN log[Len(log) - 1] ELSE NoCall

\* a getter / setter that keeps the receiver's order
DeriveSameOrder(self, encode) == [data |-> self.data, encode |-> self.encode]
\* Test { data: self.data.clone(), encode }
Derive(self, encode) == [data |-> self.data, encode |-> encode]
\* Test::new: Test { data, encode: Encode::Le }
NewTest(b) == [data |-> b, encode |-> "Le"]

\* the bytes with writes: match self.encode { Le => to_le_bytes, Be => to_be_bytes }
EncodeFor(self, T, v) == IF self.encode = "Le" THEN to_le_bytes(T, v) ELSE to_be_bytes(T, v)
\* a get that ignores the View's order
DecodeForLe(self, T, val) == from_le_bytes(T, val)
\* the value get decodes: match self.encode { Le => from_le_bytes, Be => from_be_bytes }
DecodeFor(self, T, val) == IF self.encode = "Le" THEN from_le_bytes(T, val) ELSE from_be_bytes(T, val)
GetPanics(self, T) ==
    \/ IndexPanics(data[self.data], T)
    \/ FromBytesPanics(T, Slice(data[self.data], T))
\* a get that reads a snapshot of the buffer taken before the latest call
GetValueStale(self, T) == DecodeFor(self, T, Slice(before[self.data], T))
GetValue(self, T) == DecodeFor(self, T, Slice(data[self.data], T))
\* an out that decodes little-endian whatever the View's order
OutValueLe(self, T) == from_le_bytes(T, Slice(data[self.data], T))
\* *dest = self.get::<T>()
OutValue(self, T) == GetValue(self, T)
\* a with that does not check the range against the buffer
WithPanicsLax(self, T, v) == CopyPanics(T, EncodeFor(self, T, v))
WithPanics(self, T, v) ==
    \/ IndexPanics(data[self.data], T)
    \/ CopyPanics(T, EncodeFor(self, T, v))
\* a with that writes into a snapshot taken before the latest call
WithDataLost(self, T, v) ==
    [before EXCEPT ![self.data] = copy_from_slice(before[self.data], T, EncodeFor(self, T, v))]
WithData(self, T, v) ==
    [data EXCEPT ![self.data] = copy_from_slice(data[self.data], T, EncodeFor(self, T, v))]

Record(c) == /\ log' = Append(log, c)
             /\ before' = data

\* let a = Test::new(Rc::new(RefCell::new([...]))): the state fn test() starts from
Init ==
    /\ data = InitData
    /\ views = <<NewTest(1)>>
    /\ field1 = Val8(0)
    /\ field2 = Val32(0, 0)
    /\ panicked = FALSE
    /\ log = << >>
    /\ before = InitData
    /\ pc = "L273"

\* Test::new(data)
new(b) ==
    /\ ~panicked
    /\ views' = Append(views, NewTest(b))
    /\ Record(Call("new", 0, Len(views) + 1, "-", "Le", NoVal, NoVal, TRUE))
    /\ UNCHANGED <<data, field1, field2, panicked>>

\* Getter::getter(&self, encode)
getter(i, encode) ==
    /\ ~panicked
    /\ i \in DOMAIN views
    /\ views' = Append(views, Derive(views[i], encode))
    /\ Record(Call("getter", i, Len(views) + 1, "-", encode, NoVal, NoVal, TRUE))
    /\ UNCHANGED <<data, field1, field2, panicked>>

\* Setter::setter(&self, encode)
setter(i, encode) ==
    /\ ~panicked
    /\ i \in DOMAIN views
    /\ views' = Append(views, Derive(views[i], encode))
    /\ Record(Call("setter", i, Len(views) + 1, "-", encode, NoVal, NoVal, TRUE))
    /\ UNCHANGED <<data, field1, field2, panicked>>

\* Getter::get::<T>(&self)
get(i, T) ==
    /\ ~panicked
    /\ i \in DOMAIN views
    /\ IF GetPanics(views[i], T)
       THEN /\ panicked' = TRUE
            /\ Record(Call("get", i, 0, T.name, "-", NoVal, NoVal, FALSE))
       ELSE /\ panicked' = FALSE
            /\ Record(Call("get", i, 0, T.name, "-", NoVal, GetValue(views[i], T), TRUE))
    /\ UNCHANGED <<data, views, field1, field2>>

\* Getter::out::<T>(&self, dest): *dest = self.get::<T>(); self
out(i, T) ==
    /\ ~panicked
    /\ i \in DOMAIN views
    /\ IF GetPanics(views[i], T)
       THEN /\ panicked' = TRUE
            /\ Record(Call("out", i, 0, T.name, "-", NoVal, NoVal, FALSE))
            /\ UNCHANGED <<field1, field2>>
       ELSE /\ panicked' = FALSE
            /\ Record(Call("out", i, i, T.name, "-", NoVal, NoVal, TRUE))
            /\ IF T.kind = "u8"
               THEN field1' = OutValue(views[i], T) /\ UNCHANGED field2
               ELSE field2' = OutValue(views[i], T) /\ UNCHANGED field1
    /\ UNCHANGED <<data, views>>

\* Setter::with::<T>(&self, value)
with(i, T, v) ==
    /\ ~panicked
    /\ i \in DOMAIN views
    /\ IF WithPanics(views[i], T, v)
       THEN /\ panicked' = TRUE
            /\ data' = data
            /\ Record(Call("with", i, 0, T.name, "-", v, NoVal, FALSE))
       ELSE /\ panicked' = FALSE
            /\ data' = WithData(views[i], T, v)
            /\ Record(Call("with", i, i, T.name, "-", v, NoVal, TRUE))
    /\ UNCHANGED <<views, field1, field2>>

\* ------------------------------------------------------------- free runs
\* Any caller: at most MaxCalls calls, in any order, on at most MaxViews Views.
U8Inputs == {Val8(18), Val8(35)}
U32Inputs == {Val32(4660, 22136), Val32(39612, 57072)}
Inputs(T) == IF T.kind = "u8" THEN U8Inputs ELSE U32Inputs

CallNew == Len(log) < MaxCalls /\ Len(views) < MaxViews /\ UNCHANGED pc
           /\ \E b \in Bufs : new(b)
CallGetter == Len(log) < MaxCalls /\ Len(views) < MaxViews /\ UNCHANGED pc
              /\ \E i \in DOMAIN views, e \in Encode : getter(i, e)
CallSetter == Len(log) < MaxCalls /\ Len(views) < MaxViews /\ UNCHANGED pc
              /\ \E i \in DOMAIN views, e \in Encode : setter(i, e)
CallGet == Len(log) < MaxCalls /\ UNCHANGED pc
           /\ \E i \in DOMAIN views, T \in Fields : get(i, T)
CallOut == Len(log) < MaxCalls /\ UNCHANGED pc
           /\ \E i \in DOMAIN views, T \in Fields : out(i, T)
CallWith == Len(log) < MaxCalls /\ UNCHANGED pc
            /\ \E i \in DOMAIN views, T \in Fields : \E v \in Inputs(T) : with(i, T, v)

Next == CallNew \/ CallGetter \/ CallSetter \/ CallGet \/ CallOut \/ CallWith

Spec == Init /\ [][Next]_vars

\* ------------------------------------------------------- fn test(), scripted
\* The statements of fn test() in their order, by source line, with the
\* literals of lines 273, 277, 279 and 280 drawn from input sets: both orders,
\* every u8, and u32 values built from boundary and middle halves.  The chained
\* .setter(Encode::Le).with(Field1(0x23)) of lines 281-282 is taken or not, so
\* that the reads of lines 283-284 are also seen right after line 280.
U8All == {Val8(n) : n \in 0..255}
Halves == {0, 4660, 22136, 32768, 65535}
U32Samples == {Val32(h, l) : h \in Halves, l \in Halves}

L273 == pc = "L273" /\ pc' = "L274" /\ \E e \in Encode : getter(1, e)
L274 == pc = "L274" /\ pc' = "L275" /\ get(2, Field1)
L275 == pc = "L275" /\ pc' = "L277" /\ get(2, Field2)
L277 == pc = "L277" /\ pc' = "L279" /\ \E e \in Encode : setter(1, e)
L279 == pc = "L279" /\ pc' = "L280" /\ \E v \in U8All : with(3, Field1, v)
L280 == pc = "L280" /\ pc' = "L281" /\ \E v \in U32Samples : with(3, Field2, v)
L281 == pc = "L281" /\ pc' = "L282" /\ setter(3, "Le")
L282 == pc = "L282" /\ pc' = "L283" /\ with(4, Field1, Val8(35))
L283 == pc \in {"L281", "L283"} /\ pc' = "L284" /\ get(2, Field1)
L284 == pc = "L284" /\ pc' = "L288" /\ get(2, Field2)
L288a == pc = "L288" /\ pc' = "L288b" /\ out(2, Field1)
L288b == pc = "L288b" /\ pc' = "L289" /\ out(2, Field2)

TestNext == L273 \/ L274 \/ L275 \/ L277 \/ L279 \/ L280 \/ L281 \/ L282
            \/ L283 \/ L284 \/ L288a \/ L288b

SpecTest == Init /\ [][TestNext]_vars

\* ------------------------------------------------------------------ claims
TOf(c) == FieldNamed(c.T)
BufOf(c) == views[c.view].data
InRange(T, k) == T.start < k /\ k <= T.end
\* size_of::<T::FieldType>()
Width(T) == IF T.kind = "u8" THEN 1 ELSE 4
\* u32::swap_bytes
SwapBytes(v) == Val32((v.lo % 256) * 256 + v.lo \div 256, (v.hi % 256) * 256 + v.hi \div 256)
\* the latest successful with::<T> before call k of the log, 0 if there is none
LastWith(k, T) ==
    LET W == {j \in 1..(k - 1) : log[j].op = "with" /\ log[j].ok /\ log[j].T = T} IN
    IF W = {} THEN 0 ELSE CHOOSE j \in W : \A m \in W : m <= j

\* C1: a with::<F>(v) on one View is seen by the very next get::<F>() on another
\* View of the same buffer: the get returns, and returns the bytes the with
\* encoded under the writer's order, decoded under the reader's order.
C1_WriteVisible ==
    (/\ prev.op = "with" /\ prev.ok
     /\ last.op = "get"
     /\ last.view # prev.view
     /\ BufOf(last) = BufOf(prev)
     /\ last.T = prev.T)
    => /\ last.ok
       /\ last.ret = DecodeFor(views[last.view], TOf(last),
                               EncodeFor(views[prev.view], TOf(prev), prev.arg))
C1_Witness ==
    /\ prev.op = "with" /\ prev.ok /\ prev.T = "Field2"
    /\ last.op = "get" /\ last.ok /\ last.T = "Field2"
    /\ last.view # prev.view
    /\ BufOf(last) = BufOf(prev)
    /\ views[prev.view].encode = "Le" /\ views[last.view].encode = "Be"
    /\ last.ret = SwapBytes(prev.arg)
    /\ last.ret # prev.arg

\* C2: two with calls chained on one View commit in order: afterwards every
\* byte of the later call's range holds the later call's encoding, and every
\* byte of the earlier call's range outside it still holds the earlier call's.
C2_ChainCommit ==
    (/\ prev.op = "with" /\ prev.ok
     /\ last.op = "with" /\ last.ok
     /\ last.view = prev.rview)
    => LET self == views[last.view]
           buf == data[self.data]
           A == TOf(prev)
           B == TOf(last)
           a == EncodeFor(self, A, prev.arg)
           b == EncodeFor(self, B, last.arg)
       IN \A k \in DOMAIN buf :
            /\ InRange(B, k) => buf[k] = b[k - B.start]
            /\ (InRange(A, k) /\ ~InRange(B, k)) => buf[k] = a[k - A.start]
C2_Witness ==
    /\ prev.op = "with" /\ prev.ok /\ prev.T = "Field2"
    /\ last.op = "with" /\ last.ok /\ last.T = "FieldOv"
    /\ last.view = prev.rview
    /\ views[last.view].encode = "Be"
    /\ data[BufOf(last)][2] = last.arg.lo
    /\ data[BufOf(last)][2] # EncodeFor(views[last.view], Field2, prev.arg)[1]
    /\ data[BufOf(last)][3] = EncodeFor(views[last.view], Field2, prev.arg)[2]

\* C3: a with::<A>(v) leaves every byte outside A's range, in every buffer,
\* as it was before the call.
C3_FieldIsolation ==
    last.op = "with"
    => \A b \in Bufs :
         /\ Len(data[b]) = Len(before[b])
         /\ \A k \in DOMAIN data[b] :
              (b # BufOf(last) \/ ~InRange(TOf(last), k)) => data[b][k] = before[b][k]
C3_Witness ==
    /\ last.op = "with" /\ last.ok /\ last.T = "Field1"
    /\ data[BufOf(last)][1] # before[BufOf(last)][1]
    /\ Slice(data[BufOf(last)], Field2) = Slice(before[BufOf(last)], Field2)

\* C4: the byte order belongs to the View.  On the buffer of fn test() a
\* big-endian View reads Field1 = 0x12 and Field2 = 0x3456789a; a Field2 read
\* under the order opposite to the one it was written under returns the
\* byte-reversed value (0x12345678 written little-endian reads 0x78563412
\* big-endian), and Field1 reads back the value written whatever the orders.
C4_OrderIsOfView ==
    \A k \in DOMAIN log :
      (log[k].op = "get" /\ log[k].T \in {"Field1", "Field2"})
      => LET j == LastWith(k, log[k].T)
             reader == views[log[k].view]
         IN /\ log[k].ok
            /\ (j = 0 /\ reader.encode = "Be" /\ log[k].T = "Field1")
                 => log[k].ret = Val8(18)
            /\ (j = 0 /\ reader.encode = "Be" /\ log[k].T = "Field2")
                 => log[k].ret = Val32(13398, 30874)
            /\ (j # 0 /\ log[k].T = "Field1")
                 => log[k].ret = log[j].arg
            /\ (j # 0 /\ log[k].T = "Field2" /\ views[log[j].view].encode # reader.encode)
                 => log[k].ret = SwapBytes(log[j].arg)
            /\ (j # 0 /\ log[k].T = "Field2" /\ views[log[j].view].encode = "Le"
                /\ reader.encode = "Be" /\ log[j].arg = Val32(4660, 22136))
                 => log[k].ret = Val32(30806, 13330)
C4_Witness ==
    /\ pc = "L288"
    /\ Len(log) = 8
    /\ views[2].encode = "Be" /\ views[3].encode = "Le"
    /\ log[2].ret = Val8(18) /\ log[3].ret = Val32(13398, 30874)
    /\ log[5].op = "with" /\ log[5].arg = Val8(18)
    /\ log[6].op = "with" /\ log[6].arg = Val32(4660, 22136)
    /\ log[7].op = "get" /\ log[7].ret = Val8(18)
    /\ log[8].op = "get" /\ log[8].ret = Val32(30806, 13330)

\* C5: for Field1 and Field2, both orders and every value written, decoding
\* the encoding of the value under the same order gives the value back, and a
\* get::<F>() on a View of the writer's order returns the value last written.
C5_RoundTrip ==
    \A k \in DOMAIN log :
      /\ (log[k].op = "with")
           => /\ from_le_bytes(TOf(log[k]), to_le_bytes(TOf(log[k]), log[k].arg)) = log[k].arg
              /\ from_be_bytes(TOf(log[k]), to_be_bytes(TOf(log[k]), log[k].arg)) = log[k].arg
      /\ (/\ log[k].op = "get"
          /\ LastWith(k, log[k].T) # 0
          /\ views[log[LastWith(k, log[k].T)].view].encode = views[log[k].view].encode)
           => /\ log[k].ok
              /\ log[k].ret = log[LastWith(k, log[k].T)].arg
C5_Witness ==
    /\ last.op = "get" /\ last.ok /\ last.T = "Field2"
    /\ LastWith(Len(log), "Field2") # 0
    /\ views[log[LastWith(Len(log), "Field2")].view].encode = "Be"
    /\ views[last.view].encode = "Be"
    /\ last.ret = Val32(65535, 32768)
    /\ log[LastWith(Len(log), "Field2")].arg = Val32(65535, 32768)
    /\ log[LastWith(Len(log), "Field1")].arg = Val8(255)

\* C6: with is performed only on descriptors that carry the Mutable marker.
C6_OnlyMutableWritten ==
    (last.op = "with" /\ last.ok) => TOf(last).mutable

\* C7: a get or with whose range does not fit the buffer panics at that call
\* and changes no byte: the buffers are as they were before the call, and what
\* an earlier with of the chain wrote is still in place.
C7_BoundsFatal ==
    (/\ last.op \in {"get", "with"}
     /\ IndexPanics(before[BufOf(last)], TOf(last)))
    => /\ ~last.ok
       /\ panicked
       /\ data = before
       /\ (prev.op = "with" /\ prev.ok)
            => Slice(data[BufOf(prev)], TOf(prev))
               = EncodeFor(views[prev.view], TOf(prev), prev.arg)
C7_Witness ==
    /\ prev.op = "with" /\ prev.ok /\ prev.T = "Field1"
    /\ last.op = "with" /\ ~last.ok /\ last.T = "Field2"
    /\ last.view = prev.rview
    /\ Len(data[BufOf(last)]) < Field2.end
    /\ panicked
    /\ data[BufOf(last)][1] = prev.arg.lo
    /\ data[BufOf(last)][1] # InitData[BufOf(last)][1]

\* C8: getter and setter return a new View with the requested order over the
\* receiver's buffer; no View ever changes or disappears, and getter, setter,
\* get and out leave every byte of every buffer as it was.
C8_DeriveFrame ==
    /\ last.op \in {"getter", "setter", "get", "out"} => data = before
    /\ views[1] = [data |-> 1, encode |-> "Le"]
    /\ Len(views) = 1 + Cardinality({k \in DOMAIN log : log[k].op \in {"new", "getter", "setter"}})
    /\ \A k \in DOMAIN log :
         /\ log[k].op \in {"getter", "setter"}
              => /\ log[k].rview \in DOMAIN views
                 /\ log[k].rview # log[k].view
                 /\ views[log[k].rview] = [data |-> views[log[k].view].data, encode |-> log[k].enc]
         /\ log[k].op = "new" => views[log[k].rview].encode = "Le"
C8_Witness ==
    /\ Len(log) = 3
    /\ log[1].op = "getter" /\ log[1].view = 1 /\ log[1].enc = "Be"
    /\ log[2].op = "setter" /\ log[2].view = 2 /\ log[2].enc = "Le"
    /\ log[3].op = "out"
    /\ views = <<[data |-> 1, encode |-> "Le"], [data |-> 1, encode |-> "Be"],
                 [data |-> 1, encode |-> "Le"]>>
    /\ data = InitData

\* C9: out::<F>(dest) leaves in dest the value get::<F>() returns on that View,
\* returns the same View and changes no byte; after two chained out calls each
\* destination holds its own field's value under the View's order.
C9_OutIsGet ==
    (last.op = "out" /\ last.ok)
    => LET self == views[last.view]
           Expected(T) == DecodeFor(self, T, Slice(before[self.data], T))
           Dest(T) == IF T.kind = "u8" THEN field1 ELSE field2
       IN /\ Dest(TOf(last)) = Expected(TOf(last))
          /\ last.rview = last.view
          /\ data = before
          /\ (prev.op = "out" /\ prev.ok /\ prev.rview = last.view
              /\ TOf(prev).kind # TOf(last).kind)
               => Dest(TOf(prev)) = Expected(TOf(prev))
C9_Witness ==
    /\ prev.op = "out" /\ prev.ok /\ prev.T = "Field1"
    /\ last.op = "out" /\ last.ok /\ last.T = "Field2"
    /\ prev.rview = last.view
    /\ views[last.view].encode = "Be"
    /\ field1 = Val8(18)
    /\ field2 = Val32(13398, 30874)

\* C10: a descriptor whose range length differs from the width of its value
\* type is rejected on first use: get and with through it panic and the
\* buffers stay as they were.
C10_WidthMismatchRejected ==
    (/\ last.op \in {"get", "with"}
     /\ TOf(last).end - TOf(last).start # Width(TOf(last)))
    => /\ ~last.ok
       /\ data = before
====
